---- MODULE Spec2Model ----
(***************************************************************************)
(* butter-enums: the two enum factories, ButterTupleEnum and               *)
(* ButterKeyedEnum, and the accessors they return, over a model of the     *)
(* JavaScript object heap (own properties in creation order, integer-like  *)
(* keys first, prototype lookup, frozen objects).                          *)
(***************************************************************************)
EXTENDS Integers, Sequences, FiniteSets, TLC

(***************************************************************************)
(* Bounds of the explored inputs.                                          *)
(***************************************************************************)
MaxKeys == 2
MaxLabels == 2
MaxMany == 2

(***************************************************************************)
(* State.                                                                  *)
(***************************************************************************)
VARIABLES
  heap,   \* the object heap
  pc,     \* "start", then "tupleEnum" or "keyedEnum" once the factory returned
  arg,    \* the factory's arguments
  _enum,  \* $enum
  _tuple, \* $tuple
  built,  \* the heap as it was when the factory returned
  call,   \* the last operation the caller made
  ret,    \* what it returned or threw
  invoked \* the invocations of options.tupleFactory so far

vars == <<heap, pc, arg, _enum, _tuple, built, call, ret, invoked>>

(***************************************************************************)
(* JavaScript values: primitives, references into the heap, built-in       *)
(* functions.  Every value is a record of the same shape.                  *)
(***************************************************************************)
Undefined == [t |-> "undefined", s |-> "", r |-> 0]
Str(s) == [t |-> "string", s |-> s, r |-> 0]
Number(n) == [t |-> "number", s |-> "", r |-> n]
Ref(n) == [t |-> "object", s |-> "", r |-> n]
Native(name) == [t |-> "function", s |-> name, r |-> 0]
TypeError == [t |-> "throw", s |-> "TypeError", r |-> 0]

IsRef(v) == v.t = "object"

(***************************************************************************)
(* Heap cells.  An ordinary object keeps its own properties in creation    *)
(* order; an array keeps its elements.                                     *)
(***************************************************************************)
Prop(k, v) == [k |-> k, v |-> v]
ObjectCell(props) == [kind |-> "object", props |-> props, elems |-> <<>>, frozen |-> FALSE]
ArrayCell(elems) == [kind |-> "array", props |-> <<>>, elems |-> elems, frozen |-> FALSE]

Alloc(h, cell) == Append(h, cell)
Newest(h) == Ref(Len(h))

HasOwn(cell, k) == \E i \in 1..Len(cell.props) : cell.props[i].k = k
OwnIndex(cell, k) == CHOOSE i \in 1..Len(cell.props) : cell.props[i].k = k
OwnValue(cell, k) == cell.props[OwnIndex(cell, k)].v

\* Property names the host treats as integer indices, with their numeric value.
CanonicalIndex == ("1" :> 1) @@ ("2" :> 2)
IsIndexKey(k) == k \in DOMAIN CanonicalIndex

RECURSIVE Ascending(_)
Ascending(ks) ==
  IF ks = {} THEN <<>>
  ELSE LET m == CHOOSE k \in ks : \A o \in ks : CanonicalIndex[k] <= CanonicalIndex[o]
       IN <<m>> \o Ascending(ks \ {m})

\* OrdinaryOwnPropertyKeys: integer indices ascending, then the other string
\* keys in creation order.
OwnKeys(cell) ==
  LET created == [i \in 1..Len(cell.props) |-> cell.props[i].k]
      isIdx(k) == IsIndexKey(k)
      notIdx(k) == ~IsIndexKey(k)
  IN Ascending({created[i] : i \in {j \in 1..Len(created) : isIdx(created[j])}})
       \o SelectSeq(created, notIdx)

\* Names every ordinary object inherits from Object.prototype.
ObjectPrototype == {"constructor", "toString", "valueOf", "hasOwnProperty"}

\* obj[k]: the own property, else the inherited one, else undefined.
GetProperty(h, o, k) ==
  IF HasOwn(h[o.r], k) THEN OwnValue(h[o.r], k)
  ELSE IF k \in ObjectPrototype THEN Native(k)
  ELSE Undefined

\* arr[i] for an integer i.
GetIndex(h, a, i) ==
  IF i >= 0 /\ i < Len(h[a.r].elems) THEN h[a.r].elems[i + 1] ELSE Undefined

\* CreateDataProperty: replace the value of an existing key in place, else
\* add the key last.
CreateDataProperty(cell, k, v) ==
  IF HasOwn(cell, k)
  THEN [cell EXCEPT !.props[OwnIndex(cell, k)] = Prop(k, v)]
  ELSE [cell EXCEPT !.props = Append(@, Prop(k, v))]

\* Object.entries(o): the own properties in OwnKeys order.
ObjectEntries(h, o) ==
  LET ks == OwnKeys(h[o.r])
  IN [i \in 1..Len(ks) |-> Prop(ks[i], OwnValue(h[o.r], ks[i]))]

ObjectKeys(h, o) == OwnKeys(h[o.r])

ObjectValues(h, o) ==
  LET ks == OwnKeys(h[o.r])
  IN [i \in 1..Len(ks) |-> OwnValue(h[o.r], ks[i])]

\* Object.fromEntries(entries): a new object, one CreateDataProperty per
\* entry, in order.
RECURSIVE FromEntriesCell(_, _)
FromEntriesCell(cell, entries) ==
  IF entries = <<>> THEN cell
  ELSE FromEntriesCell(CreateDataProperty(cell, Head(entries).k, Head(entries).v),
                       Tail(entries))

ObjectFromEntries(h, entries) == Alloc(h, FromEntriesCell(ObjectCell(<<>>), entries))

(***************************************************************************)
(* deep-freeze-es6: freezes the value and every composite reachable from   *)
(* it.                                                                     *)
(***************************************************************************)
Children(h, n) ==
  {h[n].props[i].v.r : i \in {j \in 1..Len(h[n].props) : IsRef(h[n].props[j].v)}}
    \cup {h[n].elems[i].r : i \in {j \in 1..Len(h[n].elems) : IsRef(h[n].elems[j])}}

RECURSIVE Reachable(_, _, _)
Reachable(h, frontier, seen) ==
  IF frontier \subseteq seen THEN seen
  ELSE LET new == frontier \ seen
       IN Reachable(h, UNION {Children(h, n) : n \in new}, seen \cup new)

deepFreeze(h, v) ==
  IF ~IsRef(v) THEN h
  ELSE LET all == Reachable(h, {v.r}, {})
       IN [i \in 1..Len(h) |-> IF i \in all THEN [h[i] EXCEPT !.frozen = TRUE] ELSE h[i]]

(***************************************************************************)
(* Strict-mode writes by the caller.  Each gives the heap afterwards and   *)
(* whether the write threw.                                                *)
(***************************************************************************)
Outcome(h, threw) == [heap |-> h, threw |-> threw]

\* o[k] = v
AssignProperty(h, o, k, v) ==
  IF h[o.r].frozen THEN Outcome(h, TRUE)
  ELSE Outcome([h EXCEPT ![o.r] = CreateDataProperty(@, k, v)], FALSE)

\* delete o[k], for an own property k
DeleteProperty(h, o, k) ==
  IF ~HasOwn(h[o.r], k) THEN Outcome(h, FALSE)
  ELSE IF h[o.r].frozen THEN Outcome(h, TRUE)
  ELSE LET keep(p) == p.k # k
       IN Outcome([h EXCEPT ![o.r].props = SelectSeq(@, keep)], FALSE)

\* a[i] = v for 0 <= i <= length (i = length adds an element)
AssignElement(h, a, i, v) ==
  IF h[a.r].frozen THEN Outcome(h, TRUE)
  ELSE IF i < Len(h[a.r].elems)
  THEN Outcome([h EXCEPT ![a.r].elems[i + 1] = v], FALSE)
  ELSE Outcome([h EXCEPT ![a.r].elems = Append(@, v)], FALSE)

\* a.pop(): deletes the last element
PopElement(h, a) ==
  IF h[a.r].elems = <<>> THEN Outcome(h, FALSE)
  ELSE IF h[a.r].frozen THEN Outcome(h, TRUE)
  ELSE Outcome([h EXCEPT ![a.r].elems = SubSeq(@, 1, Len(@) - 1)], FALSE)

(***************************************************************************)
(* The functions the caller hands to the library: predicates for find and  *)
(* transforms for the map helpers.  Each is applied to the arguments the   *)
(* library passes it, <<first, second, third>>.                            *)
(***************************************************************************)
\* ToString of a small non-negative integer.
DecimalDigits == <<"0", "1", "2", "3", "4", "5", "6", "7", "8", "9">>

\* ToPropertyKey: a number used as a property name is its decimal string.
ToPropertyKey(v) == IF v.t = "number" THEN DecimalDigits[v.r + 1] ELSE v.s

\* v[k]: of an array its elements and length, of an ordinary object its
\* properties, of a primitive string nothing the callbacks below ask for.
Member(h, v, k) ==
  IF ~IsRef(v) THEN Undefined
  ELSE IF h[v.r].kind = "array"
  THEN IF k.t = "number" THEN GetIndex(h, v, k.r)
       ELSE IF k = Str("length") THEN Number(Len(h[v.r].elems))
       ELSE Undefined
  ELSE GetProperty(h, v, ToPropertyKey(k))

\* "yellow": fruit => fruit.color === 'yellow'      (likewise "red", "purple")
\* "own":    (value, key, e) => e[key] === value
Predicates == {"yellow", "red", "purple", "own"}
RecordPredicates == {"yellow", "red", "purple"}

Holds(h, predicate, args) ==
  IF predicate = "own" THEN Member(h, args[3], args[2]) = args[1]
  ELSE Member(h, args[1], Str("color")) = Str(predicate)

\* "same":  value => value
\* "color": value => value.color
\* "index": (value, index) => index
\* "last":  (value, index, array) => array[array.length - 1 - index]
Transforms == {"same", "color", "index", "last"}

Apply(h, fn, args) ==
  CASE fn = "same" -> args[1]
    [] fn = "color" -> Member(h, args[1], Str("color"))
    [] fn = "index" -> args[2]
    [] fn = "last" ->
         Member(h, args[3], Number(Member(h, args[3], Str("length")).r - 1 - args[2].r))

(***************************************************************************)
(* mapTuple(tuple, fn) and mapTupleWithIndex(tuple, fn)                    *)
(***************************************************************************)
\* mapTuple that hands fn the value alone.
mapTupleValueOnly(h, tuple, fn) ==
  Alloc(h, ArrayCell([i \in 1..Len(h[tuple.r].elems) |->
                        Apply(h, fn, <<h[tuple.r].elems[i], Undefined, Undefined>>)]))

\* Array.prototype.map.call(tuple, fn): a new array of the same length, its
\* k-th element fn(tuple[k], k, tuple) for every k the array holds.
mapTuple(h, tuple, fn) ==
  Alloc(h, ArrayCell([i \in 1..Len(h[tuple.r].elems) |->
                        Apply(h, fn, <<h[tuple.r].elems[i], Number(i - 1), tuple>>)]))

\* for (let i = 0; i < tuple.length; i++) result[i] = fn(tuple[i], i, tuple)
RECURSIVE MapLoop(_, _, _, _, _)
MapLoop(h, tuple, fn, i, result) ==
  IF i >= Len(h[tuple.r].elems) THEN result
  ELSE MapLoop(h, tuple, fn, i + 1,
               Append(result, Apply(h, fn, <<GetIndex(h, tuple, i), Number(i), tuple>>)))

\* const result = []; the loop; return result
mapTupleWithIndex(h, tuple, fn) == Alloc(h, ArrayCell(MapLoop(h, tuple, fn, 0, <<>>)))

(***************************************************************************)
(* ButterTupleEnum(tuple)                                                  *)
(***************************************************************************)
\* LabelEntries with the loop stopping one element early.
LabelEntriesButLast(h, tuple) ==
  [i \in 1..(Len(h[tuple.r].elems) - 1) |-> Prop(h[tuple.r].elems[i].s, h[tuple.r].elems[i])]

\* tuple.map(value => [value, value])
LabelEntries(h, tuple) ==
  [i \in 1..Len(h[tuple.r].elems) |-> Prop(h[tuple.r].elems[i].s, h[tuple.r].elems[i])]

\* TupleEnumOf that freezes and keeps a copy, [...tuple], of its argument.
TupleEnumOfCopy(h, tuple) ==
  LET h1 == Alloc(h, ArrayCell(h[tuple.r].elems))
      h2 == deepFreeze(h1, Newest(h1))
      h3 == ObjectFromEntries(h2, LabelEntries(h2, Newest(h1)))
  IN [heap |-> deepFreeze(h3, Newest(h3)), enum |-> Newest(h3), tuple |-> Newest(h1)]

\* const $tuple = deepFreeze(tuple); const $enum = Object.fromEntries(...);
\* the returned enum is deepFreeze($enum).
TupleEnumOf(h, tuple) ==
  LET h1 == deepFreeze(h, tuple)
      h2 == ObjectFromEntries(h1, LabelEntries(h1, tuple))
  IN [heap |-> deepFreeze(h2, Newest(h2)), enum |-> Newest(h2), tuple |-> tuple]

\* TupleGet written with $tuple.at(index): a negative index counts from the end.
TupleGetAt(h, tuple, index) ==
  GetIndex(h, tuple, IF index < 0 THEN Len(h[tuple.r].elems) + index ELSE index)

\* get(index) { return $tuple[index] }
TupleGet(h, tuple, index) == GetIndex(h, tuple, index)

\* TupleGetMany that drops the indices that resolve to undefined.
TupleGetManyDefined(h, tuple, indices) ==
  LET defined(i) == GetIndex(h, tuple, i) # Undefined
      kept == SelectSeq(indices, defined)
  IN Alloc(h, ArrayCell([j \in 1..Len(kept) |-> GetIndex(h, tuple, kept[j])]))

\* getMany(indices) { return indices.map(index => $tuple[index]) }
TupleGetMany(h, tuple, indices) ==
  Alloc(h, ArrayCell([j \in 1..Len(indices) |-> GetIndex(h, tuple, indices[j])]))

\* TupleLength that counts the keys of $enum.
TupleLengthOfEnum(h, tuple) == Len(ObjectKeys(h, _enum))

\* get length() { return $tuple.length }
TupleLength(h, tuple) == Len(h[tuple.r].elems)

(***************************************************************************)
(* ButterKeyedEnum(enumObject, options)                                    *)
(***************************************************************************)
\* options?.keyName ?? "key"
KeyNameOf(options) == IF options.keyName = Undefined THEN "key" ELSE options.keyName.s

\* HoistKey that always writes the key under "key", whatever keyName is.
HoistKeyDefaultName(h, key, value, keyName) ==
  Alloc(h, CreateDataProperty(
             FromEntriesCell(ObjectCell(<<>>), ObjectEntries(h, value)),
             "key", Str(key)))

\* HoistKey written { [keyName]: key, ...value }: a field of value named
\* keyName wins over the key.
HoistKeyKeepOriginal(h, key, value, keyName) ==
  Alloc(h, FromEntriesCell(CreateDataProperty(ObjectCell(<<>>), keyName, Str(key)),
                           ObjectEntries(h, value)))

\* { ...value, [keyName]: key }: a new record with the own properties of
\* value, then keyName set to key.
HoistKey(h, key, value, keyName) ==
  Alloc(h, CreateDataProperty(
             FromEntriesCell(ObjectCell(<<>>), ObjectEntries(h, value)),
             keyName, Str(key)))

\* MapEntries that leaves out the last entry.
RECURSIVE MapEntriesButLast(_, _, _, _)
MapEntriesButLast(h, entries, keyName, acc) ==
  IF Len(entries) <= 1 THEN [heap |-> h, entries |-> acc]
  ELSE LET h1 == HoistKey(h, Head(entries).k, Head(entries).v, keyName)
       IN MapEntriesButLast(h1, Tail(entries), keyName,
                            Append(acc, Prop(Head(entries).k, Newest(h1))))

\* Object.entries(enumObject).map(([key, value]) => [key, {...}])
RECURSIVE MapEntries(_, _, _, _)
MapEntries(h, entries, keyName, acc) ==
  IF entries = <<>> THEN [heap |-> h, entries |-> acc]
  ELSE LET h1 == HoistKey(h, Head(entries).k, Head(entries).v, keyName)
       IN MapEntries(h1, Tail(entries), keyName,
                     Append(acc, Prop(Head(entries).k, Newest(h1))))

\* FrozenEnumOf with Object.freeze in place of deepFreeze: only the mapping
\* itself is frozen.
FrozenEnumOfShallow(h, enumObject, options) ==
  LET m == MapEntries(h, ObjectEntries(h, enumObject), KeyNameOf(options), <<>>)
      h1 == ObjectFromEntries(m.heap, m.entries)
  IN [heap |-> [h1 EXCEPT ![Len(h1)].frozen = TRUE], enum |-> Newest(h1)]

\* FrozenEnumOf that hoists the key into the caller's own records and
\* freezes and returns the caller's own mapping.
FrozenEnumOfInPlace(h, enumObject, options) ==
  LET records == {h[enumObject.r].props[i] : i \in 1..Len(h[enumObject.r].props)}
      hoisted(n) == IF \E p \in records : p.v.r = n
                    THEN CreateDataProperty(
                           h[n], KeyNameOf(options),
                           Str((CHOOSE p \in records : p.v.r = n).k))
                    ELSE h[n]
      h1 == [n \in 1..Len(h) |-> hoisted(n)]
  IN [heap |-> deepFreeze(h1, enumObject), enum |-> enumObject]

\* const $enum = deepFreeze(Object.fromEntries(...))
FrozenEnumOf(h, enumObject, options) ==
  LET m == MapEntries(h, ObjectEntries(h, enumObject), KeyNameOf(options), <<>>)
      h1 == ObjectFromEntries(m.heap, m.entries)
  IN [heap |-> deepFreeze(h1, Newest(h1)), enum |-> Newest(h1)]

\* The caller's tupleFactory: (enumObject) => [enumObject.k1, enumObject.k2, ...]
CallTupleFactory(h, enum, order) ==
  Alloc(h, ArrayCell([i \in 1..Len(order) |-> GetProperty(h, enum, order[i])]))

\* One invocation of tupleFactory on heap h, leaving heap h1: the argument it
\* was handed, whether all that is reachable from the argument was frozen at
\* that moment, the sequence it returned and the elements that one held.
Invocation(h, enum, h1) ==
  [argument |-> enum,
   frozen |-> \A n \in Reachable(h, {enum.r}, {}) : h[n].frozen,
   returned |-> Newest(h1),
   elems |-> h1[Len(h1)].elems]

\* FrozenTupleOf that calls tupleFactory once to see whether the result is
\* empty and once more for the sequence it freezes.
FrozenTupleOfTwice(h, enum, options) ==
  IF options.tupleFactory.given
  THEN LET h1 == CallTupleFactory(h, enum, options.tupleFactory.order)
           h2 == CallTupleFactory(h1, enum, options.tupleFactory.order)
       IN [heap |-> deepFreeze(h2, Newest(h2)), tuple |-> Newest(h2),
           invoked |-> <<Invocation(h, enum, h1), Invocation(h1, enum, h2)>>]
  ELSE LET h1 == Alloc(h, ArrayCell(<<>>))
       IN [heap |-> h1, tuple |-> Newest(h1), invoked |-> <<>>]

\* FrozenTupleOf that leaves what tupleFactory returned as it is.
FrozenTupleOfUnfrozen(h, enum, options) ==
  IF options.tupleFactory.given
  THEN LET h1 == CallTupleFactory(h, enum, options.tupleFactory.order)
       IN [heap |-> h1, tuple |-> Newest(h1), invoked |-> <<Invocation(h, enum, h1)>>]
  ELSE LET h1 == Alloc(h, ArrayCell(<<>>))
       IN [heap |-> h1, tuple |-> Newest(h1), invoked |-> <<>>]

\* const $tuple = options?.tupleFactory ? deepFreeze(options.tupleFactory($enum)) : []
FrozenTupleOf(h, enum, options) ==
  IF options.tupleFactory.given
  THEN LET h1 == CallTupleFactory(h, enum, options.tupleFactory.order)
       IN [heap |-> deepFreeze(h1, Newest(h1)), tuple |-> Newest(h1),
           invoked |-> <<Invocation(h, enum, h1)>>]
  ELSE LET h1 == Alloc(h, ArrayCell(<<>>))
       IN [heap |-> h1, tuple |-> Newest(h1), invoked |-> <<>>]

KeyedEnumOf(h, enumObject, options) ==
  LET e == FrozenEnumOf(h, enumObject, options)
      t == FrozenTupleOf(e.heap, e.enum, options)
  IN [heap |-> t.heap, enum |-> e.enum, tuple |-> t.tuple, invoked |-> t.invoked]

\* KeyedGet that looks the key up among the records of $tuple.
KeyedGetFromTuple(h, enum, key) ==
  LET T == h[_tuple.r].elems
      hits == {i \in 1..Len(T) : Member(h, T[i], Str(KeyNameOf(arg.options))) = Str(key)}
  IN IF hits = {} THEN Undefined ELSE T[CHOOSE i \in hits : \A o \in hits : i <= o]

\* get(key) { return $enum[key] }
KeyedGet(h, enum, key) == GetProperty(h, enum, key)

\* KeyedGetMany that drops the keys that resolve to undefined.
KeyedGetManyDefined(h, enum, keys) ==
  LET defined(k) == GetProperty(h, enum, k) # Undefined
      kept == SelectSeq(keys, defined)
  IN Alloc(h, ArrayCell([i \in 1..Len(kept) |-> GetProperty(h, enum, kept[i])]))

\* getMany(keys) { return keys.map((key) => $enum[key]) }
KeyedGetMany(h, enum, keys) ==
  Alloc(h, ArrayCell([i \in 1..Len(keys) |-> GetProperty(h, enum, keys[i])]))

\* KeyedKeys that reads the keys off $tuple, as orderedKeys does.
KeyedKeysOrdered(h, enum) ==
  Alloc(h, ArrayCell([i \in 1..Len(h[_tuple.r].elems) |->
                        GetProperty(h, h[_tuple.r].elems[i], KeyNameOf(arg.options))]))

\* get keys() { return Object.keys($enum) }
KeyedKeys(h, enum) ==
  LET ks == ObjectKeys(h, enum)
  IN Alloc(h, ArrayCell([i \in 1..Len(ks) |-> Str(ks[i])]))

\* KeyedValues that hands out the elements of $tuple.
KeyedValuesOrdered(h, enum) == Alloc(h, ArrayCell(h[_tuple.r].elems))

\* get values() { return Object.values($enum) }
KeyedValues(h, enum) == Alloc(h, ArrayCell(ObjectValues(h, enum)))

\* ArrayFind that tests every value and then picks the first that passed.
RECURSIVE ArrayFindScanAll(_, _, _, _, _, _)
ArrayFindScanAll(h, values, enum, predicate, i, passed) ==
  IF i >= Len(values)
  THEN LET hits == {j \in 1..Len(passed) : Holds(h, predicate, passed[j])}
       IN [value |-> IF hits = {} THEN Undefined
                     ELSE passed[CHOOSE j \in hits : \A o \in hits : j <= o][1],
           passed |-> passed]
  ELSE ArrayFindScanAll(h, values, enum, predicate, i + 1,
                        Append(passed, <<values[i + 1], Number(i), enum>>))

\* Array.prototype.find over values, from index i on, with the callback
\* (value, key) => predicate(value, key, $enum): the callback's second
\* parameter receives the array index.  Gives the value found and the
\* arguments each invocation of predicate was handed.
RECURSIVE ArrayFind(_, _, _, _, _, _)
ArrayFind(h, values, enum, predicate, i, passed) ==
  IF i >= Len(values) THEN [value |-> Undefined, passed |-> passed]
  ELSE LET args == <<values[i + 1], Number(i), enum>>
       IN IF Holds(h, predicate, args)
          THEN [value |-> values[i + 1], passed |-> Append(passed, args)]
          ELSE ArrayFind(h, values, enum, predicate, i + 1, Append(passed, args))

\* KeyedFind that searches $tuple instead of Object.values($enum).
KeyedFindInTuple(h, enum, predicate) ==
  ArrayFind(h, h[_tuple.r].elems, enum, predicate, 0, <<>>)

\* find(predicate) { return Object.values($enum).find((value, key) =>
\*   predicate(value, key, $enum)) }
KeyedFind(h, enum, predicate) ==
  ArrayFind(h, ObjectValues(h, enum), enum, predicate, 0, <<>>)

\* The members of the record ButterKeyedEnum returns.
KeyedMembers ==
  {"tuple", "orderedKeys", "getTupleValuesByProperty", "enum", "get", "getMany",
   "keys", "values", "find"}

\* E.mapTuple(fn) on the returned record E: mapTuple($tuple, fn) where E has
\* the member, and a TypeError, E.mapTuple being undefined, where it has not.
KeyedMapTuple(h, t, fn) ==
  IF "mapTuple" \in KeyedMembers
  THEN LET h1 == mapTuple(h, t, fn) IN [heap |-> h1, value |-> Newest(h1)]
  ELSE [heap |-> h, value |-> TypeError]

(***************************************************************************)
(* The caller: the inputs it builds before it calls a factory.             *)
(***************************************************************************)
SeqsUpTo(S, n) == UNION {[1..k -> S] : k \in 0..n}

Labels == {"red", "green", "1"}
KeyUniverse == {"apple", "banana", "2", "1"}
RecordShapes == {"plain", "clash"}
KeyNames == {Undefined, Str("slug")}
Indices == (0 - 1)..(MaxLabels + 1)
LookupKeys == KeyUniverse \cup {"missing", "constructor", "toString"}
ManyKeys == {"apple", "missing", "constructor"}
Properties == {"color", "key", "slug", "meta", "absent"}

\* A record literal of the given shape; the plain one holds a nested object.
BuildRecord(h, shape) ==
  CASE shape = "plain" ->
         LET h1 == Alloc(h, ObjectCell(<<Prop("organic", Str("yes"))>>))
         IN Alloc(h1, ObjectCell(<<Prop("color", Str("red")), Prop("meta", Newest(h1))>>))
    [] shape = "clash" ->
         Alloc(h, ObjectCell(<<Prop("key", Str("k0")), Prop("color", Str("yellow")),
                               Prop("slug", Str("s0"))>>))

\* The input mapping literal { k1: r1, k2: r2, ... }, written in this order.
RECURSIVE BuildLiteral(_, _, _)
BuildLiteral(h, literal, props) ==
  IF literal = <<>> THEN Alloc(h, ObjectCell(props))
  ELSE LET h1 == BuildRecord(h, Head(literal).shape)
       IN BuildLiteral(h1, Tail(literal), Append(props, Prop(Head(literal).key, Newest(h1))))

Literals ==
  {m \in SeqsUpTo([key : KeyUniverse, shape : RecordShapes], MaxKeys) :
     \A i, j \in 1..Len(m) : i # j => m[i].key # m[j].key}

Reverse(q) == [i \in 1..Len(q) |-> q[Len(q) + 1 - i]]

\* The orders a tupleFactory picks over the keys ks: all of them, reversed,
\* none, only the first, the first twice.
TupleOrders(ks) ==
  {ks, Reverse(ks), <<>>}
    \cup (IF ks = <<>> THEN {} ELSE {<<ks[1]>>, <<ks[1], ks[1]>>})

NoFactory == [given |-> FALSE, order |-> <<>>]
Factory(order) == [given |-> TRUE, order |-> order]
NoOptions == [keyName |-> Undefined, tupleFactory |-> NoFactory]

\* The factory's arguments, with the literals the caller wrote them from:
\* labels for ButterTupleEnum([...]), literal for ButterKeyedEnum({...}, options).
Args(factory, t, labels, enumObject, literal, options) ==
  [factory |-> factory, tuple |-> t, labels |-> labels, enumObject |-> enumObject,
   literal |-> literal, options |-> options]

TupleInputs ==
  {[heap |-> <<ArrayCell([i \in 1..Len(S) |-> Str(S[i])])>>,
    arg |-> Args("tuple", Ref(1), S, Undefined, <<>>, NoOptions)] :
     S \in SeqsUpTo(Labels, MaxLabels)}

KeyedInputs ==
  UNION {LET h == BuildLiteral(<<>>, m, <<>>)
         IN {[heap |-> h,
              arg |-> Args("keyed", Undefined, <<>>, Newest(h), m,
                           [keyName |-> kn, tupleFactory |-> tf])] :
               kn \in KeyNames,
               tf \in {NoFactory} \cup {Factory(o) : o \in TupleOrders(OwnKeys(h[Len(h)]))}}
         : m \in Literals}

Call(op, keys, indices, target) ==
  [op |-> op, keys |-> keys, indices |-> indices, target |-> target,
   fn |-> "", passed |-> <<>>]
NoCall == Call("none", <<>>, <<>>, 0)

Init ==
  \E in \in TupleInputs \cup KeyedInputs :
    /\ heap = in.heap
    /\ arg = in.arg
    /\ pc = "start"
    /\ _enum = Undefined
    /\ _tuple = Undefined
    /\ built = <<>>
    /\ call = NoCall
    /\ ret = Undefined
    /\ invoked = <<>>

\* What the caller still holds of the heap: results of earlier queries are dropped.
Live == SubSeq(heap, 1, Len(built))

\* The factory has returned and the caller is not holding a result.
Ready(kind) == pc = kind /\ call.op \in {"none", "ButterTupleEnum", "ButterKeyedEnum"}

ButterTupleEnum ==
  /\ pc = "start" /\ arg.factory = "tuple"
  /\ LET e == TupleEnumOf(heap, arg.tuple)
     IN /\ heap' = e.heap
        /\ built' = e.heap
        /\ _enum' = e.enum
        /\ _tuple' = e.tuple
  /\ pc' = "tupleEnum"
  /\ call' = Call("ButterTupleEnum", <<>>, <<>>, 0)
  /\ ret' = Undefined
  /\ UNCHANGED <<arg, invoked>>

ButterKeyedEnum ==
  /\ pc = "start" /\ arg.factory = "keyed"
  /\ LET e == KeyedEnumOf(heap, arg.enumObject, arg.options)
     IN /\ heap' = e.heap
        /\ built' = e.heap
        /\ _enum' = e.enum
        /\ _tuple' = e.tuple
        /\ invoked' = e.invoked
  /\ pc' = "keyedEnum"
  /\ call' = Call("ButterKeyedEnum", <<>>, <<>>, 0)
  /\ ret' = Undefined
  /\ UNCHANGED arg

CallTupleGet(index) ==
  /\ Ready("tupleEnum")
  /\ heap' = Live
  /\ ret' = TupleGet(Live, _tuple, index)
  /\ call' = Call("get", <<>>, <<index>>, 0)
  /\ UNCHANGED <<pc, arg, _enum, _tuple, built, invoked>>

CallTupleGetMany(indices) ==
  /\ Ready("tupleEnum")
  /\ heap' = TupleGetMany(Live, _tuple, indices)
  /\ ret' = Newest(heap')
  /\ call' = Call("getMany", <<>>, indices, 0)
  /\ UNCHANGED <<pc, arg, _enum, _tuple, built, invoked>>

CallTupleLength ==
  /\ Ready("tupleEnum")
  /\ heap' = Live
  /\ ret' = Number(TupleLength(Live, _tuple))
  /\ call' = Call("length", <<>>, <<>>, 0)
  /\ UNCHANGED <<pc, arg, _enum, _tuple, built, invoked>>

\* ButterTupleEnum(E.tuple): a second enum made from the tuple of the first.
CallButterTupleEnumOfTuple ==
  /\ Ready("tupleEnum")
  /\ LET e == TupleEnumOf(Live, _tuple)
     IN /\ heap' = e.heap
        /\ ret' = e.enum
        /\ call' = Call("ButterTupleEnum(tuple)", <<>>, <<>>, e.tuple.r)
  /\ UNCHANGED <<pc, arg, _enum, _tuple, built, invoked>>

CallKeyedGet(key) ==
  /\ Ready("keyedEnum")
  /\ heap' = Live
  /\ ret' = KeyedGet(Live, _enum, key)
  /\ call' = Call("get", <<key>>, <<>>, 0)
  /\ UNCHANGED <<pc, arg, _enum, _tuple, built, invoked>>

CallKeyedGetMany(keys) ==
  /\ Ready("keyedEnum")
  /\ heap' = KeyedGetMany(Live, _enum, keys)
  /\ ret' = Newest(heap')
  /\ call' = Call("getMany", keys, <<>>, 0)
  /\ UNCHANGED <<pc, arg, _enum, _tuple, built, invoked>>

CallKeyedKeys ==
  /\ Ready("keyedEnum")
  /\ heap' = KeyedKeys(Live, _enum)
  /\ ret' = Newest(heap')
  /\ call' = Call("keys", <<>>, <<>>, 0)
  /\ UNCHANGED <<pc, arg, _enum, _tuple, built, invoked>>

CallKeyedValues ==
  /\ Ready("keyedEnum")
  /\ heap' = KeyedValues(Live, _enum)
  /\ ret' = Newest(heap')
  /\ call' = Call("values", <<>>, <<>>, 0)
  /\ UNCHANGED <<pc, arg, _enum, _tuple, built, invoked>>

CallKeyedFind(predicate) ==
  /\ Ready("keyedEnum")
  /\ heap' = Live
  /\ LET f == KeyedFind(Live, _enum, predicate)
     IN /\ ret' = f.value
        /\ call' = [Call("find", <<>>, <<>>, 0) EXCEPT !.fn = predicate, !.passed = f.passed]
  /\ UNCHANGED <<pc, arg, _enum, _tuple, built, invoked>>

\* The marker the tuple-dependent accessors return when $tuple is empty.
UnavailableMarker(message) ==
  ObjectCell(<<Prop("__error__", Str(message)), Prop("value", Undefined)>>)

\* KeyedTuple without the length test: $tuple itself, empty or not.
KeyedTupleUnguarded(h, t) == [heap |-> h, value |-> t]

\* get tuple(): a new marker if ($tuple.length === 0), else $tuple.
KeyedTuple(h, t) ==
  IF Len(h[t.r].elems) = 0
  THEN LET h1 == Alloc(h, UnavailableMarker(
                    "Provide tupleFactory if you want a tuple, and ensure it's not empty"))
       IN [heap |-> h1, value |-> Newest(h1)]
  ELSE [heap |-> h, value |-> t]

\* TupleValuesByProperty that stops one element early.
TupleValuesByPropertyButLast(h, t, property) ==
  Alloc(h, ArrayCell([i \in 1..(Len(h[t.r].elems) - 1) |->
                        Member(h, h[t.r].elems[i], Str(property))]))

\* $tuple.map(value => value[property]): a new array.
TupleValuesByProperty(h, t, property) ==
  Alloc(h, ArrayCell([i \in 1..Len(h[t.r].elems) |->
                        Member(h, h[t.r].elems[i], Str(property))]))

\* KeyedOrderedKeys that maps $tuple in place and hands out $tuple.
KeyedOrderedKeysInPlace(h, t, options) ==
  IF Len(h[t.r].elems) = 0
  THEN LET h1 == Alloc(h, UnavailableMarker(
                    "Provide tupleFactory if you want ordered keys, and ensure it's not empty"))
       IN [heap |-> h1, value |-> Newest(h1)]
  ELSE [heap |-> [h EXCEPT ![t.r].elems =
                    [i \in 1..Len(@) |-> Member(h, @[i], Str(KeyNameOf(options)))]],
        value |-> t]

\* KeyedOrderedKeys that lists Object.keys($enum) when $tuple is not empty.
KeyedOrderedKeysFromEnum(h, t, options) ==
  LET h1 == IF Len(h[t.r].elems) = 0
            THEN Alloc(h, UnavailableMarker(
                   "Provide tupleFactory if you want ordered keys, and ensure it's not empty"))
            ELSE KeyedKeys(h, _enum)
  IN [heap |-> h1, value |-> Newest(h1)]

\* KeyedOrderedKeys without the length test.
KeyedOrderedKeysUnguarded(h, t, options) ==
  LET h1 == TupleValuesByProperty(h, t, KeyNameOf(options))
  IN [heap |-> h1, value |-> Newest(h1)]

\* KeyedOrderedKeys that reads value.key whatever keyName is.
KeyedOrderedKeysDefaultName(h, t, options) ==
  LET h1 == IF Len(h[t.r].elems) = 0
            THEN Alloc(h, UnavailableMarker(
                   "Provide tupleFactory if you want ordered keys, and ensure it's not empty"))
            ELSE TupleValuesByProperty(h, t, "key")
  IN [heap |-> h1, value |-> Newest(h1)]

\* get orderedKeys(): a new marker if ($tuple.length === 0), else
\* $tuple.map(value => value[options?.keyName ?? "key"]).
KeyedOrderedKeys(h, t, options) ==
  LET h1 == IF Len(h[t.r].elems) = 0
            THEN Alloc(h, UnavailableMarker(
                   "Provide tupleFactory if you want ordered keys, and ensure it's not empty"))
            ELSE TupleValuesByProperty(h, t, KeyNameOf(options))
  IN [heap |-> h1, value |-> Newest(h1)]

\* KeyedGetTupleValuesByProperty that maps the key field, as orderedKeys does.
KeyedGetTupleValuesByKeyName(h, t, property) ==
  KeyedOrderedKeys(h, t, arg.options)

\* getTupleValuesByProperty(property): a new marker if ($tuple.length === 0),
\* else $tuple.map(value => value[property]).
KeyedGetTupleValuesByProperty(h, t, property) ==
  LET h1 == IF Len(h[t.r].elems) = 0
            THEN Alloc(h, UnavailableMarker(
                   "Provide tupleFactory if you want a tuple, and ensure it's not empty"))
            ELSE TupleValuesByProperty(h, t, property)
  IN [heap |-> h1, value |-> Newest(h1)]

CallKeyedTuple ==
  /\ Ready("keyedEnum")
  /\ LET r == KeyedTuple(Live, _tuple)
     IN heap' = r.heap /\ ret' = r.value
  /\ call' = Call("tuple", <<>>, <<>>, 0)
  /\ UNCHANGED <<pc, arg, _enum, _tuple, built, invoked>>

CallKeyedOrderedKeys ==
  /\ Ready("keyedEnum")
  /\ LET r == KeyedOrderedKeys(Live, _tuple, arg.options)
     IN heap' = r.heap /\ ret' = r.value
  /\ call' = Call("orderedKeys", <<>>, <<>>, 0)
  /\ UNCHANGED <<pc, arg, _enum, _tuple, built, invoked>>

CallKeyedGetTupleValuesByProperty(property) ==
  /\ Ready("keyedEnum")
  /\ LET r == KeyedGetTupleValuesByProperty(Live, _tuple, property)
     IN heap' = r.heap /\ ret' = r.value
  /\ call' = Call("getTupleValuesByProperty", <<property>>, <<>>, 0)
  /\ UNCHANGED <<pc, arg, _enum, _tuple, built, invoked>>

CallKeyedMapTuple(fn) ==
  /\ Ready("keyedEnum")
  /\ LET r == KeyedMapTuple(Live, _tuple, fn)
     IN heap' = r.heap /\ ret' = r.value
  /\ call' = [Call("enum.mapTuple", <<>>, <<>>, 0) EXCEPT !.fn = fn]
  /\ UNCHANGED <<pc, arg, _enum, _tuple, built, invoked>>

(***************************************************************************)
(* The caller's attempts to change what the factory returned.              *)
(***************************************************************************)
\* The composites the caller reaches through the returned enum and tuple
\* properties (the keyed tuple only when the getter hands out $tuple itself).
Exposed(h) ==
  Reachable(h, {_enum.r} \cup (IF pc = "tupleEnum" \/ KeyedTuple(h, _tuple).value = _tuple
                               THEN {_tuple.r} ELSE {}), {})

Thrown(outcome) == IF outcome.threw THEN TypeError ELSE Undefined

AttemptAssign(o, k) ==
  /\ Ready("tupleEnum") \/ Ready("keyedEnum")
  /\ o \in Exposed(Live) /\ Live[o].kind = "object"
  /\ LET w == AssignProperty(Live, Ref(o), k, Str("changed"))
     IN heap' = w.heap /\ ret' = Thrown(w)
  /\ call' = Call("assign", <<k>>, <<>>, o)
  /\ UNCHANGED <<pc, arg, _enum, _tuple, built, invoked>>

AttemptDelete(o, k) ==
  /\ Ready("tupleEnum") \/ Ready("keyedEnum")
  /\ o \in Exposed(Live) /\ Live[o].kind = "object"
  /\ LET w == DeleteProperty(Live, Ref(o), k)
     IN heap' = w.heap /\ ret' = Thrown(w)
  /\ call' = Call("delete", <<k>>, <<>>, o)
  /\ UNCHANGED <<pc, arg, _enum, _tuple, built, invoked>>

AttemptAssignElement(a, i) ==
  /\ Ready("tupleEnum") \/ Ready("keyedEnum")
  /\ a \in Exposed(Live) /\ Live[a].kind = "array"
  /\ LET w == AssignElement(Live, Ref(a), i, Str("changed"))
     IN heap' = w.heap /\ ret' = Thrown(w)
  /\ call' = Call("assignElement", <<>>, <<i>>, a)
  /\ UNCHANGED <<pc, arg, _enum, _tuple, built, invoked>>

AttemptPop(a) ==
  /\ Ready("tupleEnum") \/ Ready("keyedEnum")
  /\ a \in Exposed(Live) /\ Live[a].kind = "array"
  /\ Live[a].elems # <<>>
  /\ LET w == PopElement(Live, Ref(a))
     IN heap' = w.heap /\ ret' = Thrown(w)
  /\ call' = Call("pop", <<>>, <<>>, a)
  /\ UNCHANGED <<pc, arg, _enum, _tuple, built, invoked>>

\* The exported helpers, applied to a sequence the caller got from a factory.
CallMapTuple(a, fn) ==
  /\ Ready("tupleEnum") \/ Ready("keyedEnum")
  /\ a \in Exposed(Live) /\ Live[a].kind = "array"
  /\ heap' = mapTuple(Live, Ref(a), fn)
  /\ ret' = Newest(heap')
  /\ call' = [Call("mapTuple", <<>>, <<>>, a) EXCEPT !.fn = fn]
  /\ UNCHANGED <<pc, arg, _enum, _tuple, built, invoked>>

CallMapTupleWithIndex(a, fn) ==
  /\ Ready("tupleEnum") \/ Ready("keyedEnum")
  /\ a \in Exposed(Live) /\ Live[a].kind = "array"
  /\ heap' = mapTupleWithIndex(Live, Ref(a), fn)
  /\ ret' = Newest(heap')
  /\ call' = [Call("mapTupleWithIndex", <<>>, <<>>, a) EXCEPT !.fn = fn]
  /\ UNCHANGED <<pc, arg, _enum, _tuple, built, invoked>>

\* The caller adds an element to a sequence a query has just handed it:
\* result[result.length] = "changed".
ChangeResult(i) ==
  /\ pc \in {"tupleEnum", "keyedEnum"}
  /\ call.op \in {"getMany", "keys", "values", "orderedKeys", "getTupleValuesByProperty"}
  /\ IsRef(ret) /\ heap[ret.r].kind = "array"
  /\ i = Len(heap[ret.r].elems)
  /\ LET w == AssignElement(heap, ret, i, Str("changed"))
     IN heap' = w.heap /\ ret' = Thrown(w)
  /\ call' = Call("change result", <<>>, <<i>>, ret.r)
  /\ UNCHANGED <<pc, arg, _enum, _tuple, built, invoked>>

\* The caller's input mapping and the records it holds at top level.
InputObjects ==
  {arg.enumObject.r}
    \cup {built[arg.enumObject.r].props[i].v.r : i \in 1..Len(built[arg.enumObject.r].props)}

\* The caller has not written to its input since construction.
InputIntact == \A o \in InputObjects : heap[o] = built[o]

\* After construction the caller assigns a key of its input mapping or a
\* top-level field of one of its input records: o[k] = "changed".
WriteInput(o, k) ==
  /\ Ready("keyedEnum")
  /\ InputIntact
  /\ o \in InputObjects
  /\ LET w == AssignProperty(Live, Ref(o), k, Str("changed"))
     IN heap' = w.heap /\ ret' = Thrown(w)
  /\ call' = Call("write input", <<k>>, <<>>, o)
  /\ UNCHANGED <<pc, arg, _enum, _tuple, built, invoked>>

\* ... or deletes one: delete o[k].
DeleteInput(o, k) ==
  /\ Ready("keyedEnum")
  /\ InputIntact
  /\ o \in InputObjects
  /\ LET w == DeleteProperty(Live, Ref(o), k)
     IN heap' = w.heap /\ ret' = Thrown(w)
  /\ call' = Call("delete input", <<k>>, <<>>, o)
  /\ UNCHANGED <<pc, arg, _enum, _tuple, built, invoked>>

\* The caller lets go of the result of its last call.
Discard ==
  /\ pc \in {"tupleEnum", "keyedEnum"}
  /\ ~(Ready("tupleEnum") \/ Ready("keyedEnum"))
  /\ heap' = Live
  /\ call' = NoCall
  /\ ret' = Undefined
  /\ UNCHANGED <<pc, arg, _enum, _tuple, built, invoked>>

OwnNames(cell) == {cell.props[i].k : i \in 1..Len(cell.props)}

Next ==
  \/ ButterTupleEnum
  \/ ButterKeyedEnum
  \/ \E index \in Indices : CallTupleGet(index)
  \/ \E indices \in SeqsUpTo(Indices, MaxMany) : CallTupleGetMany(indices)
  \/ CallTupleLength
  \/ CallButterTupleEnumOfTuple
  \/ \E key \in LookupKeys : CallKeyedGet(key)
  \/ \E keys \in SeqsUpTo(ManyKeys, MaxMany) : CallKeyedGetMany(keys)
  \/ CallKeyedKeys
  \/ CallKeyedValues
  \/ \E predicate \in Predicates : CallKeyedFind(predicate)
  \/ CallKeyedTuple
  \/ CallKeyedOrderedKeys
  \/ \E property \in Properties : CallKeyedGetTupleValuesByProperty(property)
  \/ \E fn \in Transforms : CallKeyedMapTuple(fn)
  \/ \E a \in 1..Len(built) : \E fn \in Transforms : CallMapTuple(a, fn)
  \/ \E a \in 1..Len(built) : \E fn \in Transforms : CallMapTupleWithIndex(a, fn)
  \/ \E o \in 1..Len(built) : \E k \in OwnNames(heap[o]) \cup {"extra"} : AttemptAssign(o, k)
  \/ \E o \in 1..Len(built) : \E k \in OwnNames(heap[o]) : AttemptDelete(o, k)
  \/ \E a \in 1..Len(built) : \E i \in 0..Len(heap[a].elems) : AttemptAssignElement(a, i)
  \/ \E a \in 1..Len(built) : AttemptPop(a)
  \/ \E i \in 0..(MaxKeys + MaxMany) : ChangeResult(i)
  \/ Discard

Spec == Init /\ [][Next]_vars

(***************************************************************************)
(* The keyed enum next to a caller that goes on writing to the mapping it  *)
(* handed to ButterKeyedEnum.                                              *)
(***************************************************************************)
InitInputWrites == Init /\ arg.factory = "keyed"

NextInputWrites ==
  \/ ButterKeyedEnum
  \/ \E o \in 1..Len(built) :
       \E k \in OwnNames(heap[o]) \cup {"extra", KeyNameOf(arg.options)} : WriteInput(o, k)
  \/ \E o \in 1..Len(built) : \E k \in OwnNames(heap[o]) : DeleteInput(o, k)
  \/ \E key \in {arg.literal[i].key : i \in 1..Len(arg.literal)} \cup {"missing"} :
       CallKeyedGet(key)
  \/ CallKeyedKeys
  \/ CallKeyedValues
  \/ Discard

SpecInputWrites == InitInputWrites /\ [][NextInputWrites]_vars

(***************************************************************************)
(* Properties.                                                             *)
(***************************************************************************)
Constructed == pc \in {"tupleEnum", "keyedEnum"}
Elems(v) == heap[v.r].elems
LiteralKeys == {arg.literal[i].key : i \in 1..Len(arg.literal)}
Distinct(q) == \A i, j \in 1..Len(q) : i # j => q[i] # q[j]

\* C1: the enum of ButterKeyedEnum(M, {keyName: k}) has exactly the keys of M,
\* and each enum[key] holds k = key, every field of M[key] other than k with
\* its original value, and nothing else (k is "key" when no keyName is given).
C1_EnumHoistsKey ==
  pc = "keyedEnum" =>
    LET M == built[arg.enumObject.r]
        E == heap[_enum.r]
        k == IF arg.options.keyName = Undefined THEN "key" ELSE arg.options.keyName.s
    IN /\ OwnNames(E) = OwnNames(M)
       /\ OwnNames(E) = LiteralKeys
       /\ \A key \in OwnNames(M) :
            LET rec == heap[OwnValue(E, key).r]
                orig == built[OwnValue(M, key).r]
            IN /\ HasOwn(rec, k)
               /\ OwnValue(rec, k) = Str(key)
               /\ \A f \in OwnNames(orig) \ {k} :
                    HasOwn(rec, f) /\ OwnValue(rec, f) = OwnValue(orig, f)
               /\ OwnNames(rec) \subseteq OwnNames(orig) \cup {k}

\* A keyed enum of two records built with keyName "slug", one of the input
\* records already holding fields named key and slug.
C1_Witness ==
  /\ pc = "keyedEnum"
  /\ Len(arg.literal) = 2
  /\ arg.options.keyName = Str("slug")
  /\ \E i \in 1..2 : arg.literal[i].shape = "clash"

\* C2: once a factory has returned, every attempt to assign, add or delete
\* an element of the returned tuple or a field of the returned enum, or of a
\* record nested in them, throws, and everything reachable from tuple and
\* enum stays as it was when the factory returned.
C2_FrozenForever ==
  Constructed =>
    /\ \A n \in Exposed(built) : heap[n] = built[n]
    /\ call.op \in {"assign", "delete", "assignElement", "pop"} => ret = TypeError

\* An attempt to assign a field of a record nested in a keyed enum threw, and
\* so did an attempt to add an element to a tuple.
C2_Witness ==
  /\ call.op = "assign"
  /\ pc = "keyedEnum"
  /\ call.target \notin {_enum.r, _tuple.r}
  /\ call.keys = <<"organic">>
  /\ ret = TypeError

\* C3: for a sequence S of unique labels, ButterTupleEnum(S) has tuple equal
\* to S element by element, enum with exactly the labels of S as keys and
\* enum[label] = label, and length = len(S); all empty for empty S.
C3_TupleEnumOfUniqueLabels ==
  (pc = "tupleEnum" /\ Distinct(arg.labels)) =>
    LET S == arg.labels
    IN /\ Len(Elems(_tuple)) = Len(S)
       /\ \A i \in 1..Len(S) : Elems(_tuple)[i] = Str(S[i])
       /\ OwnNames(heap[_enum.r]) = {S[i] : i \in 1..Len(S)}
       /\ \A i \in 1..Len(S) : OwnValue(heap[_enum.r], S[i]) = Str(S[i])
       /\ call.op = "length" => ret = Number(Len(S))
       /\ S = <<>> => Elems(_tuple) = <<>> /\ heap[_enum.r].props = <<>>

\* length was read off a tuple enum of two different labels.
C3_Witness ==
  /\ pc = "tupleEnum"
  /\ call.op = "length"
  /\ Len(arg.labels) = 2
  /\ Distinct(arg.labels)

\* C4: ButterTupleEnum(S).get(i) is S[i] for 0 <= i < len(S) and undefined
\* for any other integer i; it never throws.
C4_TupleGet ==
  (pc = "tupleEnum" /\ call.op = "get") =>
    LET i == call.indices[1]
        S == arg.labels
    IN ret = IF 0 <= i /\ i < Len(S) THEN Str(S[i + 1]) ELSE Undefined

\* get(-1) on a tuple enum of two labels returned undefined.
C4_Witness ==
  /\ pc = "tupleEnum"
  /\ call.op = "get"
  /\ call.indices = <<0 - 1>>
  /\ Len(arg.labels) = 2
  /\ ret = Undefined

\* C5: ButterTupleEnum(S).getMany(I) is as long as I and its j-th element is
\* get(I[j]), repeated and out-of-range indices included.
C5_TupleGetMany ==
  (pc = "tupleEnum" /\ call.op = "getMany") =>
    LET I == call.indices
    IN /\ Len(Elems(ret)) = Len(I)
       /\ \A j \in 1..Len(I) : Elems(ret)[j] = TupleGet(Live, _tuple, I[j])

\* getMany of an in-range index followed by an out-of-range one.
C5_Witness ==
  /\ pc = "tupleEnum"
  /\ call.op = "getMany"
  /\ Len(arg.labels) = 1
  /\ call.indices = <<0, 1>>
  /\ Elems(ret) = <<Str(arg.labels[1]), Undefined>>

\* C6: ButterKeyedEnum get(key) is the record enum[key] for a key of the input
\* mapping and undefined for any other key.
C6_KeyedGet ==
  (pc = "keyedEnum" /\ call.op = "get") =>
    LET k == call.keys[1]
    IN ret = IF k \in LiteralKeys THEN OwnValue(heap[_enum.r], k) ELSE Undefined

\* C7: get(s) is undefined for every string s that is not a key of the input
\* mapping, names such as "constructor" and "toString" included.
C7_GetOfUnknownString ==
  (pc = "keyedEnum" /\ call.op = "get" /\ call.keys[1] \notin LiteralKeys) =>
    ret = Undefined

\* C8: ButterKeyedEnum getMany(K) is as long as K and its i-th element is
\* get(K[i]) for present, missing and repeated keys alike; an undefined entry
\* sits only at the position of a key that is not in the mapping.
C8_KeyedGetMany ==
  (pc = "keyedEnum" /\ call.op = "getMany") =>
    LET K == call.keys
    IN /\ Len(Elems(ret)) = Len(K)
       /\ \A i \in 1..Len(K) :
            /\ Elems(ret)[i] = KeyedGet(Live, _enum, K[i])
            /\ Elems(ret)[i] = Undefined => K[i] \notin LiteralKeys

\* getMany(["missing", "apple"]) on an enum that has apple: undefined first,
\* the apple record second.
C8_Witness ==
  /\ pc = "keyedEnum"
  /\ call.op = "getMany"
  /\ call.keys = <<"missing", "apple">>
  /\ "apple" \in LiteralKeys
  /\ Elems(ret)[1] = Undefined
  /\ Elems(ret)[2] = OwnValue(heap[_enum.r], "apple")

\* C9 as stated: keys lists the mapping keys in the order they were written
\* into the input mapping.
C9_KeysInInsertionOrder ==
  (pc = "keyedEnum" /\ call.op = "keys") =>
    Elems(ret) = [i \in 1..Len(arg.literal) |-> Str(arg.literal[i].key)]

\* The position at which the input literal names key k.
Written(k) == CHOOSE i \in 1..Len(arg.literal) : arg.literal[i].key = k

\* C9 as amended: keys lists every mapping key exactly once, the integer-like
\* keys first in ascending numeric order, then the other keys in the order
\* they were written into the input mapping, whatever tupleFactory returned.
C9_KeysInPropertyOrder ==
  (pc = "keyedEnum" /\ call.op = "keys") =>
    LET q == Elems(ret)
    IN /\ Len(q) = Len(arg.literal)
       /\ {q[i].s : i \in 1..Len(q)} = LiteralKeys
       /\ \A i \in 1..Len(q) : q[i].t = "string"
       /\ \A i, j \in 1..Len(q) :
            i < j =>
              \/ IsIndexKey(q[i].s) /\ ~IsIndexKey(q[j].s)
              \/ /\ IsIndexKey(q[i].s) /\ IsIndexKey(q[j].s)
                 /\ CanonicalIndex[q[i].s] < CanonicalIndex[q[j].s]
              \/ /\ ~IsIndexKey(q[i].s) /\ ~IsIndexKey(q[j].s)
                 /\ Written(q[i].s) < Written(q[j].s)

\* keys of the mapping written { banana, apple } with a tupleFactory that
\* returns apple before banana: banana, apple.
C9_Witness ==
  /\ pc = "keyedEnum"
  /\ call.op = "keys"
  /\ Len(arg.literal) = 2
  /\ arg.literal[1].key = "banana" /\ arg.literal[2].key = "apple"
  /\ arg.options.tupleFactory = Factory(<<"apple", "banana">>)
  /\ Elems(ret) = <<Str("banana"), Str("apple")>>

\* C10: values is as long as keys and values[i] is the record enum[keys[i]],
\* so values[i][keyName] = keys[i].
C10_ValuesFollowKeys ==
  (pc = "keyedEnum" /\ call.op = "values") =>
    LET kh == KeyedKeys(Live, _enum)
        ks == kh[Len(kh)].elems
        k == IF arg.options.keyName = Undefined THEN "key" ELSE arg.options.keyName.s
    IN /\ Len(Elems(ret)) = Len(ks)
       /\ \A i \in 1..Len(ks) :
            /\ Elems(ret)[i] = OwnValue(heap[_enum.r], ks[i].s)
            /\ GetProperty(heap, Elems(ret)[i], k) = ks[i]

\* values of a two-record enum whose tupleFactory reversed the order.
C10_Witness ==
  /\ pc = "keyedEnum"
  /\ call.op = "values"
  /\ Len(arg.literal) = 2
  /\ arg.options.tupleFactory.given
  /\ arg.options.tupleFactory.order = Reverse(ObjectKeys(heap, _enum))
  /\ Len(Elems(ret)) = 2

\* C11: for every predicate p over records, find(p) is the record values[i]
\* with the smallest i such that p holds for values[i], and undefined when p
\* holds for no record, whatever order tupleFactory gave the records.
C11_FindFirstInValues ==
  (pc = "keyedEnum" /\ call.op = "find" /\ call.fn \in RecordPredicates) =>
    LET vh == KeyedValues(Live, _enum)
        values == vh[Len(vh)].elems
        matches == {i \in 1..Len(values) :
                      OwnValue(heap[values[i].r], "color") = Str(call.fn)}
    IN IF matches = {} THEN ret = Undefined
       ELSE \E i \in matches : ret = values[i] /\ \A j \in matches : i <= j

\* Two yellow records, the tupleFactory ordering the second before the first:
\* find(color is yellow) returned the first of values, which is the last
\* element of the tuple.
C11_Witness ==
  /\ pc = "keyedEnum"
  /\ call.op = "find" /\ call.fn = "yellow"
  /\ Len(arg.literal) = 2
  /\ arg.literal[1].shape = "clash" /\ arg.literal[2].shape = "clash"
  /\ ~IsIndexKey(arg.literal[1].key) /\ ~IsIndexKey(arg.literal[2].key)
  /\ arg.options.tupleFactory = Factory(<<arg.literal[2].key, arg.literal[1].key>>)
  /\ ret = OwnValue(heap[_enum.r], arg.literal[1].key)
  /\ ret = Elems(_tuple)[2]

\* C12: each time find invokes the predicate it hands it three arguments: the
\* augmented record, that record's own mapping key (the string equal to
\* record[keyName]), and the enum mapping.
C12_FindPassesKey ==
  (pc = "keyedEnum" /\ call.op = "find") =>
    \A j \in 1..Len(call.passed) :
      LET a == call.passed[j]
      IN /\ \E k \in LiteralKeys : a[1] = OwnValue(heap[_enum.r], k)
         /\ a[2].t = "string"
         /\ a[2] = GetProperty(heap, a[1], KeyNameOf(arg.options))
         /\ a[3] = _enum

\* The operations that depend on the tuple.
TupleDependent == {"tuple", "orderedKeys", "getTupleValuesByProperty"}

\* v is the "unavailable" marker: an object with exactly a non-empty text in
\* __error__ and undefined in value.
IsMarker(v) ==
  /\ IsRef(v)
  /\ heap[v.r].kind = "object"
  /\ OwnNames(heap[v.r]) = {"__error__", "value"}
  /\ OwnValue(heap[v.r], "__error__").t = "string"
  /\ OwnValue(heap[v.r], "__error__").s # ""
  /\ OwnValue(heap[v.r], "value") = Undefined

IsSequence(v) == IsRef(v) /\ heap[v.r].kind = "array"

\* C13: on a keyed enum constructed without tupleFactory, tuple, orderedKeys
\* and getTupleValuesByProperty(p) each return the unavailable marker; none
\* throws and none returns a sequence.
C13_MarkerWithoutFactory ==
  (pc = "keyedEnum" /\ ~arg.options.tupleFactory.given /\ call.op \in TupleDependent) =>
    /\ IsMarker(ret)
    /\ ret.t # "throw"
    /\ ~IsSequence(ret)

\* orderedKeys of a two-record enum built without tupleFactory is the marker.
C13_Witness ==
  /\ pc = "keyedEnum"
  /\ ~arg.options.tupleFactory.given
  /\ Len(arg.literal) = 2
  /\ call.op = "orderedKeys"
  /\ IsMarker(ret)

\* tupleFactory was supplied and returned an empty sequence.
ReturnedEmpty == Len(invoked) = 1 /\ Elems(invoked[1].returned) = <<>>

\* C14 as stated: without tupleFactory the tuple-dependent operations yield
\* the marker, and with a tupleFactory that returned an empty sequence they
\* yield an empty sequence and not the marker.
C14_EmptyIsNotUnavailable ==
  (pc = "keyedEnum" /\ call.op \in TupleDependent) =>
    /\ ~arg.options.tupleFactory.given => IsMarker(ret)
    /\ ReturnedEmpty => IsSequence(ret) /\ Elems(ret) = <<>> /\ ~IsMarker(ret)

\* C14 as amended: the tuple-dependent operations yield the marker, with the
\* same text, both without tupleFactory and with a tupleFactory that
\* returned an empty sequence; they yield a sequence, as long as the one
\* tupleFactory returned, only when that one is not empty.
C14_EmptyIsUnavailable ==
  (pc = "keyedEnum" /\ call.op \in TupleDependent) =>
    LET text == IF call.op = "orderedKeys"
                THEN "Provide tupleFactory if you want ordered keys, and ensure it's not empty"
                ELSE "Provide tupleFactory if you want a tuple, and ensure it's not empty"
    IN IF ~arg.options.tupleFactory.given \/ ReturnedEmpty
       THEN IsMarker(ret) /\ OwnValue(heap[ret.r], "__error__") = Str(text)
       ELSE /\ IsSequence(ret)
            /\ Len(Elems(ret)) = Len(Elems(invoked[1].returned))
            /\ Elems(ret) # <<>>

\* tuple of a one-record enum whose tupleFactory returned an empty sequence
\* is the marker.
C14_Witness ==
  /\ pc = "keyedEnum"
  /\ Len(arg.literal) = 1
  /\ ReturnedEmpty
  /\ call.op = "tuple"
  /\ IsMarker(ret)

\* C15 as stated: when tupleFactory is supplied, construction invokes it
\* exactly once, with the already frozen enum mapping; tuple equals the
\* sequence it returned, element by element; no later operation invokes it.
C15_TupleIsWhatFactoryReturned ==
  (pc = "keyedEnum" /\ arg.options.tupleFactory.given) =>
    /\ Len(invoked) = 1
    /\ invoked[1].argument = _enum
    /\ invoked[1].frozen
    /\ call.op = "tuple" =>
         /\ IsSequence(ret)
         /\ Len(Elems(ret)) = Len(invoked[1].elems)
         /\ \A i \in 1..Len(invoked[1].elems) : Elems(ret)[i] = invoked[1].elems[i]

\* C15 as amended: when tupleFactory is supplied, construction invokes it
\* exactly once, with the already frozen enum mapping, and no later operation
\* invokes it; tuple is the very sequence it returned, element by element,
\* when that sequence is not empty, and the unavailable marker when it is.
\* Without tupleFactory nothing is invoked.
C15_NonEmptyTupleIsWhatFactoryReturned ==
  pc = "keyedEnum" =>
    IF arg.options.tupleFactory.given
    THEN /\ Len(invoked) = 1
         /\ invoked[1].argument = _enum
         /\ invoked[1].frozen
         /\ call.op = "tuple" =>
              IF invoked[1].elems = <<>> THEN IsMarker(ret)
              ELSE /\ ret = invoked[1].returned
                   /\ IsSequence(ret)
                   /\ Elems(ret) = invoked[1].elems
    ELSE invoked = <<>>

\* tuple read on an enum of two records whose tupleFactory put them in
\* another order than values: the factory was invoked once and tuple holds
\* the records in the factory's order.
C15_Witness ==
  /\ pc = "keyedEnum"
  /\ call.op = "tuple"
  /\ Len(arg.literal) = 2
  /\ arg.options.tupleFactory.given
  /\ Len(invoked) = 1
  /\ Len(Elems(ret)) = 2
  /\ Elems(ret)[1] = OwnValue(heap[_enum.r], arg.options.tupleFactory.order[1])
  /\ Elems(ret)[1] # ObjectValues(heap, _enum)[1]

\* The tuple as the caller reads it.
TupleRead == KeyedTuple(Live, _tuple).value

\* C16: with keyName k and a tupleFactory that returned a non-empty sequence,
\* orderedKeys is as long as tuple and orderedKeys[i] = tuple[i][k], k being
\* the configured keyName and "key" only when none was given.
C16_OrderedKeysFollowTuple ==
  (/\ pc = "keyedEnum" /\ call.op = "orderedKeys"
   /\ arg.options.tupleFactory.given /\ invoked[1].elems # <<>>) =>
    LET k == IF arg.options.keyName = Undefined THEN "key" ELSE arg.options.keyName.s
        T == Elems(TupleRead)
    IN /\ IsSequence(ret)
       /\ Len(Elems(ret)) = Len(T)
       /\ \A i \in 1..Len(T) : Elems(ret)[i] = OwnValue(heap[T[i].r], k)

\* orderedKeys under keyName "slug" of a tuple whose first record also has a
\* field named key: the slug is listed, not that field.
C16_Witness ==
  /\ pc = "keyedEnum" /\ call.op = "orderedKeys"
  /\ arg.options.keyName = Str("slug")
  /\ Len(Elems(_tuple)) = 2
  /\ HasOwn(heap[Elems(_tuple)[1].r], "key")
  /\ Elems(ret)[1] = OwnValue(heap[Elems(_tuple)[1].r], "slug")
  /\ Elems(ret)[1] # OwnValue(heap[Elems(_tuple)[1].r], "key")

\* tupleFactory returned every record of enum exactly once.
CoversEveryKeyOnce ==
  /\ arg.options.tupleFactory.given
  /\ Len(invoked) = 1
  /\ Len(invoked[1].elems) = Len(arg.literal)
  /\ \A k \in LiteralKeys :
       \E i \in 1..Len(invoked[1].elems) : invoked[1].elems[i] = OwnValue(heap[_enum.r], k)

\* q lists exactly the keys that keys lists, each once.
IsPermutationOfKeys(q) ==
  LET kh == KeyedKeys(Live, _enum)
      keys == kh[Len(kh)].elems
  IN /\ Len(q) = Len(keys)
     /\ {q[i] : i \in 1..Len(q)} = {keys[i] : i \in 1..Len(keys)}
     /\ Distinct(q)

\* C17 as stated: when tupleFactory returns every record of enum exactly
\* once, tuple has as many elements as the input mapping has keys and
\* orderedKeys is a permutation of keys.
C17_OrderedKeysPermuteKeys ==
  (pc = "keyedEnum" /\ CoversEveryKeyOnce) =>
    /\ call.op = "tuple" => IsSequence(ret) /\ Len(Elems(ret)) = Len(arg.literal)
    /\ call.op = "orderedKeys" => IsSequence(ret) /\ IsPermutationOfKeys(Elems(ret))

\* C17 as amended: when the input mapping has at least one key and
\* tupleFactory returns every record of enum exactly once, tuple has as many
\* elements as the mapping has keys and orderedKeys is a permutation of keys;
\* for the empty mapping tuple and orderedKeys are the unavailable marker.
C17_OrderedKeysPermuteKeysUnlessEmpty ==
  (pc = "keyedEnum" /\ CoversEveryKeyOnce) =>
    IF arg.literal = <<>>
    THEN call.op \in {"tuple", "orderedKeys"} => IsMarker(ret)
    ELSE /\ call.op = "tuple" => IsSequence(ret) /\ Len(Elems(ret)) = Len(arg.literal)
         /\ call.op = "orderedKeys" => IsSequence(ret) /\ IsPermutationOfKeys(Elems(ret))

\* orderedKeys of { banana, apple } with the tupleFactory returning apple
\* before banana: apple, banana, while keys is banana, apple.
C17_Witness ==
  /\ pc = "keyedEnum" /\ call.op = "orderedKeys"
  /\ Len(arg.literal) = 2
  /\ arg.literal[1].key = "banana" /\ arg.literal[2].key = "apple"
  /\ arg.options.tupleFactory = Factory(<<"apple", "banana">>)
  /\ Elems(ret) = <<Str("apple"), Str("banana")>>

\* C18: with a non-empty tuple and a field name p present on every tuple
\* element, getTupleValuesByProperty(p) is as long as tuple and its i-th
\* element is tuple[i][p].
C18_TupleValuesByProperty ==
  (/\ pc = "keyedEnum" /\ call.op = "getTupleValuesByProperty"
   /\ IsSequence(TupleRead)
   /\ \A i \in 1..Len(Elems(_tuple)) : HasOwn(heap[Elems(_tuple)[i].r], call.keys[1])) =>
    LET T == Elems(TupleRead)
    IN /\ IsSequence(ret)
       /\ Len(Elems(ret)) = Len(T)
       /\ \A i \in 1..Len(T) : Elems(ret)[i] = OwnValue(heap[T[i].r], call.keys[1])

\* getTupleValuesByProperty("color") of a tuple of a yellow record followed
\* by a red one.
C18_Witness ==
  /\ pc = "keyedEnum" /\ call.op = "getTupleValuesByProperty"
  /\ call.keys = <<"color">>
  /\ Len(Elems(_tuple)) = 2
  /\ Elems(ret) = <<Str("yellow"), Str("red")>>

\* C19: the structure ButterKeyedEnum returns has a method mapTuple that
\* applies the caller's function to every element of tuple in order and
\* returns a new, unfrozen sequence of the same length whose i-th element is
\* the function's result for tuple[i]; tuple itself is unchanged.
C19_KeyedMapTuple ==
  (pc = "keyedEnum" /\ call.op = "enum.mapTuple") =>
    LET T == built[_tuple.r].elems
    IN /\ IsSequence(ret)
       /\ ret # _tuple
       /\ ~heap[ret.r].frozen
       /\ Len(Elems(ret)) = Len(T)
       /\ \A i \in 1..Len(T) :
            Elems(ret)[i] = Apply(Live, call.fn, <<T[i], Number(i - 1), _tuple>>)
       /\ heap[_tuple.r] = built[_tuple.r]

\* C20: for every sequence T and function fn, mapTuple(T, fn) and
\* mapTupleWithIndex(T, fn) each return a new sequence as long as T whose
\* i-th element is fn(T[i], i, T), and leave T as it was; the two helpers
\* return equal sequences, and an empty one for an empty T.
C20_MapHelpers ==
  call.op \in {"mapTuple", "mapTupleWithIndex"} =>
    LET T == built[call.target].elems
        byMap == mapTuple(Live, Ref(call.target), call.fn)
        byLoop == mapTupleWithIndex(Live, Ref(call.target), call.fn)
    IN /\ IsSequence(ret)
       /\ ret.r > Len(built)
       /\ Len(Elems(ret)) = Len(T)
       /\ \A i \in 1..Len(T) :
            Elems(ret)[i] = Apply(Live, call.fn, <<T[i], Number(i - 1), Ref(call.target)>>)
       /\ heap[call.target] = built[call.target]
       /\ byMap[Len(byMap)].elems = byLoop[Len(byLoop)].elems
       /\ Elems(ret) = byMap[Len(byMap)].elems
       /\ T = <<>> => Elems(ret) = <<>>

\* mapTupleWithIndex over a tuple of two different labels with the function
\* that picks the element mirrored across the sequence: the labels reversed.
C20_Witness ==
  /\ pc = "tupleEnum"
  /\ call.op = "mapTupleWithIndex" /\ call.fn = "last"
  /\ Len(arg.labels) = 2 /\ arg.labels[1] # arg.labels[2]
  /\ Elems(ret) = <<Str(arg.labels[2]), Str(arg.labels[1])>>

\* mapTuple over the empty tuple of ButterTupleEnum([]) is a new empty
\* sequence.
C20_EmptyInput ==
  /\ pc = "tupleEnum"
  /\ call.op = "mapTuple"
  /\ arg.labels = <<>>
  /\ Elems(ret) = <<>>
  /\ ret # _tuple

\* The enum as it stood when tupleFactory was handed it: built and frozen,
\* the tuple not made yet.
EnumBeforeTuple ==
  FrozenEnumOf(SubSeq(built, 1, arg.enumObject.r), arg.enumObject, arg.options)

\* C21: deep-freezing what is frozen already changes nothing and raises no
\* error: ButterTupleEnum of the frozen tuple of another enum returns an enum
\* whose tuple is that tuple, element for element and still frozen; and a
\* tupleFactory that returns the frozen records of enum gets a tuple of those
\* records, each as it was and still frozen.
C21_FreezeAgain ==
  /\ (pc = "tupleEnum" /\ call.op = "ButterTupleEnum(tuple)") =>
       /\ ret.t # "throw"
       /\ call.target = _tuple.r
       /\ heap[call.target] = built[_tuple.r]
       /\ heap[call.target].elems = [i \in 1..Len(arg.labels) |-> Str(arg.labels[i])]
       /\ heap[call.target].frozen
       /\ heap[ret.r].frozen
       /\ heap[ret.r].props = heap[_enum.r].props
  /\ (pc = "keyedEnum" /\ arg.options.tupleFactory.given) =>
       LET before == EnumBeforeTuple
       IN /\ invoked[1].frozen
          /\ built[_tuple.r].elems = invoked[1].elems
          /\ built[_tuple.r].frozen
          /\ \A n \in Reachable(before.heap, {before.enum.r}, {}) :
               before.heap[n].frozen /\ built[n] = before.heap[n]

\* A second enum was made from the frozen tuple of an enum of two labels.
C21_Witness ==
  /\ pc = "tupleEnum"
  /\ call.op = "ButterTupleEnum(tuple)"
  /\ Len(arg.labels) = 2
  /\ heap[call.target].frozen

\* C22: find invokes the predicate on values[0], values[1], ... in that
\* order, once each, and on no record after the first one for which it
\* returned true: it stops short of the end only at a match.
C22_FindStopsAtFirstMatch ==
  (pc = "keyedEnum" /\ call.op = "find") =>
    LET values == ObjectValues(Live, _enum)
        P == call.passed
    IN /\ Len(P) <= Len(values)
       /\ \A j \in 1..Len(P) : P[j][1] = values[j]
       /\ \A j \in 1..(Len(P) - 1) : ~Holds(Live, call.fn, P[j])
       /\ Len(P) < Len(values) => Holds(Live, call.fn, P[Len(P)])
       /\ ret # Undefined => Holds(Live, call.fn, P[Len(P)]) /\ ret = P[Len(P)][1]

\* find(color is yellow) on two yellow records invoked the predicate once,
\* on the first of values.
C22_Witness ==
  /\ pc = "keyedEnum"
  /\ call.op = "find" /\ call.fn = "yellow"
  /\ Len(arg.literal) = 2
  /\ arg.literal[1].shape = "clash" /\ arg.literal[2].shape = "clash"
  /\ Len(call.passed) = 1
  /\ call.passed[1][1] = ObjectValues(heap, _enum)[1]

\* C23: for a label sequence S with a repeated label, ButterTupleEnum(S)
\* does not fail: enum has one entry per distinct label, mapping the label to
\* itself; tuple keeps every occurrence in order; length is len(S); and
\* get(i) is S[i] at every occurrence.
C23_RepeatedLabels ==
  (pc = "tupleEnum" /\ ~Distinct(arg.labels)) =>
    LET S == arg.labels
        E == heap[_enum.r]
    IN /\ OwnNames(E) = {S[i] : i \in 1..Len(S)}
       /\ Len(E.props) = Cardinality({S[i] : i \in 1..Len(S)})
       /\ \A l \in OwnNames(E) : OwnValue(E, l) = Str(l)
       /\ Elems(_tuple) = [i \in 1..Len(S) |-> Str(S[i])]
       /\ call.op = "length" => ret = Number(Len(S))
       /\ (call.op = "get" /\ call.indices[1] \in 0..(Len(S) - 1)) =>
            ret = Str(S[call.indices[1] + 1])
       /\ call.op \in {"ButterTupleEnum", "get", "getMany", "length"} => ret.t # "throw"

\* length of ButterTupleEnum of the same label twice is 2, the enum having
\* one entry.
C23_Witness ==
  /\ pc = "tupleEnum"
  /\ Len(arg.labels) = 2 /\ arg.labels[1] = arg.labels[2]
  /\ call.op = "length"
  /\ ret = Number(2)
  /\ Len(heap[_enum.r].props) = 1

\* C24: when an input record already has a field named keyName, construction
\* does not fail, the augmented record holds the entry's mapping key in that
\* field and not the record's original value, and every other field of the
\* record is kept.
C24_HoistOverwrites ==
  pc = "keyedEnum" =>
    LET k == IF arg.options.keyName = Undefined THEN "key" ELSE arg.options.keyName.s
    IN \A i \in 1..Len(arg.literal) :
         LET key == arg.literal[i].key
             orig == built[OwnValue(built[arg.enumObject.r], key).r]
             rec == heap[OwnValue(heap[_enum.r], key).r]
         IN HasOwn(orig, k) =>
              /\ OwnValue(rec, k) = Str(key)
              /\ OwnValue(rec, k) # OwnValue(orig, k)
              /\ \A f \in OwnNames(orig) \ {k} : HasOwn(rec, f) /\ OwnValue(rec, f) = OwnValue(orig, f)
              /\ OwnNames(rec) = OwnNames(orig)

\* A record { key: "k0", color, slug } under the mapping key banana with the
\* default keyName: its key field in enum is "banana".
C24_Witness ==
  /\ pc = "keyedEnum"
  /\ arg.options.keyName = Undefined
  /\ \E i \in 1..Len(arg.literal) :
       /\ arg.literal[i] = [key |-> "banana", shape |-> "clash"]
       /\ OwnValue(built[OwnValue(built[arg.enumObject.r], "banana").r], "key") = Str("k0")
       /\ OwnValue(heap[OwnValue(heap[_enum.r], "banana").r], "key") = Str("banana")

\* tupleFactory returned a sequence that leaves out a record of enum.
OmitsAKey ==
  /\ arg.options.tupleFactory.given
  /\ Len(invoked) = 1
  /\ \E k \in LiteralKeys :
       \A i \in 1..Len(invoked[1].elems) : invoked[1].elems[i] # OwnValue(heap[_enum.r], k)

\* C25 as stated: with a tupleFactory whose result omits some keys,
\* construction does not fail; enum, keys and values cover every key of the
\* input mapping in insertion order; tuple is exactly the sequence the
\* factory returned.
C25_OmittingFactory ==
  (pc = "keyedEnum" /\ OmitsAKey) =>
    /\ OwnNames(heap[_enum.r]) = LiteralKeys
    /\ call.op = "keys" =>
         Elems(ret) = [i \in 1..Len(arg.literal) |-> Str(arg.literal[i].key)]
    /\ call.op = "values" =>
         Elems(ret) = [i \in 1..Len(arg.literal) |->
                         OwnValue(heap[_enum.r], arg.literal[i].key)]
    /\ call.op = "tuple" => IsSequence(ret) /\ Elems(ret) = invoked[1].elems

\* C25 as amended: with a tupleFactory whose result omits some keys,
\* construction does not fail; enum has every key of the input mapping, and
\* keys and values list them all in the mapping's property order
\* (integer-like keys ascending, then the others as inserted); tuple is the
\* sequence the factory returned when that is not empty and the unavailable
\* marker when it is empty.
C25_OmittingFactoryInPropertyOrder ==
  (pc = "keyedEnum" /\ OmitsAKey) =>
    LET order == ObjectKeys(built, arg.enumObject)
    IN /\ OwnNames(heap[_enum.r]) = LiteralKeys
       /\ Len(order) = Len(arg.literal)
       /\ call.op = "keys" => Elems(ret) = [i \in 1..Len(order) |-> Str(order[i])]
       /\ call.op = "values" =>
            Elems(ret) = [i \in 1..Len(order) |-> OwnValue(heap[_enum.r], order[i])]
       /\ call.op = "tuple" =>
            IF invoked[1].elems = <<>> THEN IsMarker(ret)
            ELSE ret = invoked[1].returned /\ Elems(ret) = invoked[1].elems
       /\ call.op \in {"ButterKeyedEnum", "keys", "values", "tuple"} => ret.t # "throw"

\* values of a two-record enum whose tupleFactory returned only the first
\* record: both records.
C25_Witness ==
  /\ pc = "keyedEnum"
  /\ Len(arg.literal) = 2
  /\ Len(invoked) = 1 /\ Len(invoked[1].elems) = 1
  /\ call.op = "values"
  /\ Len(Elems(ret)) = 2

\* The same construction, from the same input mapping and keyName, with
\* tupleFactory left out.
WithoutFactory ==
  KeyedEnumOf(SubSeq(built, 1, arg.enumObject.r), arg.enumObject,
              [arg.options EXCEPT !.tupleFactory = NoFactory])

\* C26: enum, get, getMany, keys, values and find give the results they
\* give for the same input mapping and keyName without tupleFactory,
\* whatever tupleFactory returned: all records in any order, some of them,
\* or none.
C26_IndependentOfTupleFactory ==
  pc = "keyedEnum" =>
    LET R == WithoutFactory
        newest(h) == h[Len(h)].elems
    IN /\ _enum = R.enum
       /\ \A n \in Reachable(R.heap, {R.enum.r}, {}) : heap[n] = R.heap[n]
       /\ call.op = "get" => ret = KeyedGet(R.heap, R.enum, call.keys[1])
       /\ call.op = "getMany" => Elems(ret) = newest(KeyedGetMany(R.heap, R.enum, call.keys))
       /\ call.op = "keys" => Elems(ret) = newest(KeyedKeys(R.heap, R.enum))
       /\ call.op = "values" => Elems(ret) = newest(KeyedValues(R.heap, R.enum))
       /\ call.op = "find" =>
            /\ ret = KeyedFind(R.heap, R.enum, call.fn).value
            /\ call.passed = KeyedFind(R.heap, R.enum, call.fn).passed

\* find(color is yellow) on a red record followed by a yellow one, the
\* tupleFactory having returned only the red one: the yellow record.
C26_Witness ==
  /\ pc = "keyedEnum"
  /\ Len(arg.literal) = 2
  /\ arg.literal[1].shape = "plain" /\ arg.literal[2].shape = "clash"
  /\ ~IsIndexKey(arg.literal[1].key) /\ ~IsIndexKey(arg.literal[2].key)
  /\ arg.options.tupleFactory = Factory(<<arg.literal[1].key>>)
  /\ call.op = "find" /\ call.fn = "yellow"
  /\ ret = OwnValue(heap[_enum.r], arg.literal[2].key)

\* The cell a call returning <<heap, value>> handed out.
Handed(r) == IF IsRef(r.value) THEN r.heap[r.value.r] ELSE r.value

\* C27: after any sequence of queries, and of changes the caller makes to
\* the sequences that keys, values, getMany, orderedKeys and
\* getTupleValuesByProperty returned, enum and tuple are as they were built
\* and every query returns what it returns right after construction.
C27_QueriesAreStable ==
  pc = "keyedEnum" =>
    LET newest(h) == h[Len(h)].elems
    IN /\ \A n \in Reachable(built, {_enum.r, _tuple.r}, {}) : heap[n] = built[n]
       /\ call.op = "change result" => ret = Undefined /\ call.target > Len(built)
       /\ call.op = "get" => ret = KeyedGet(built, _enum, call.keys[1])
       /\ call.op = "getMany" => Elems(ret) = newest(KeyedGetMany(built, _enum, call.keys))
       /\ call.op = "keys" => Elems(ret) = newest(KeyedKeys(built, _enum))
       /\ call.op = "values" => Elems(ret) = newest(KeyedValues(built, _enum))
       /\ call.op = "find" => ret = KeyedFind(built, _enum, call.fn).value
       /\ call.op = "tuple" =>
            /\ heap[ret.r] = Handed(KeyedTuple(built, _tuple))
            /\ IsSequence(ret) => ret = _tuple
       /\ call.op = "orderedKeys" =>
            heap[ret.r] = Handed(KeyedOrderedKeys(built, _tuple, arg.options))
       /\ call.op = "getTupleValuesByProperty" =>
            heap[ret.r] = Handed(KeyedGetTupleValuesByProperty(built, _tuple, call.keys[1]))

\* The caller added an element to the sequence orderedKeys returned for a
\* tuple of two records.
C27_Witness ==
  /\ pc = "keyedEnum"
  /\ call.op = "change result"
  /\ call.indices = <<2>>
  /\ Len(Elems(_tuple)) = 2
  /\ heap[call.target].elems[3] = Str("changed")
  /\ heap[call.target].elems[1] = OwnValue(heap[Elems(_tuple)[1].r], KeyNameOf(arg.options))

\* C28: when tupleFactory returns records of the enum mapping it was given,
\* get(orderedKeys[i]) is the very record tuple[i], at every position i.
C28_OrderedKeysNameTupleRecords ==
  (pc = "keyedEnum" /\ call.op = "orderedKeys" /\ IsSequence(ret)) =>
    LET T == Elems(TupleRead)
    IN /\ Len(Elems(ret)) = Len(T)
       /\ \A i \in 1..Len(T) :
            /\ Elems(ret)[i].t = "string"
            /\ KeyedGet(Live, _enum, Elems(ret)[i].s) = T[i]

\* orderedKeys of a tuple that reverses the two records of the enum: get of
\* the first ordered key is the record values lists last.
C28_Witness ==
  /\ pc = "keyedEnum" /\ call.op = "orderedKeys"
  /\ Len(arg.literal) = 2
  /\ arg.options.tupleFactory.order = Reverse(ObjectKeys(heap, _enum))
  /\ Len(Elems(ret)) = 2
  /\ KeyedGet(Live, _enum, Elems(ret)[1].s) = ObjectValues(heap, _enum)[2]
  /\ KeyedGet(Live, _enum, Elems(ret)[1].s) = Elems(_tuple)[1]

\* The input mapping as the caller wrote it, before construction.
Given == BuildLiteral(<<>>, arg.literal, <<>>)

\* C29: construction leaves the caller's input mapping and its top-level
\* records as the caller wrote them, keys and fields unchanged and not
\* frozen; afterwards the caller can still write to them, and such a write
\* changes neither enum nor what get, keys and values return.
C29_InputLeftAlone ==
  pc = "keyedEnum" =>
    LET newest(h) == h[Len(h)].elems
    IN /\ \A o \in InputObjects : built[o] = Given[o] /\ ~built[o].frozen
       /\ call.op = "write input" =>
            /\ ret = Undefined
            /\ OwnValue(heap[call.target], call.keys[1]) = Str("changed")
       /\ call.op = "delete input" =>
            /\ ret = Undefined
            /\ ~HasOwn(heap[call.target], call.keys[1])
       /\ _enum.r \notin InputObjects
       /\ \A n \in Reachable(built, {_enum.r}, {}) : heap[n] = built[n] /\ n \notin InputObjects
       /\ call.op = "get" => ret = KeyedGet(built, _enum, call.keys[1])
       /\ call.op = "keys" => Elems(ret) = newest(KeyedKeys(built, _enum))
       /\ call.op = "values" => Elems(ret) = newest(KeyedValues(built, _enum))

\* After the caller deleted the key apple from its input mapping, get("apple")
\* still returns the record of enum.
C29_Witness ==
  /\ pc = "keyedEnum"
  /\ call.op = "get" /\ call.keys = <<"apple">>
  /\ "apple" \in LiteralKeys
  /\ ~HasOwn(heap[arg.enumObject.r], "apple")
  /\ ret = OwnValue(heap[_enum.r], "apple")

\* C30: in every state after ButterTupleEnum(S) returned, whatever the
\* caller has called or tried to change, tuple is the caller's input
\* sequence itself, frozen in place, so that a write to the input sequence
\* throws; get(i) is tuple[i], getMany follows get, and length is the
\* number of elements of tuple.
C30_TupleEnumConsistent ==
  pc = "tupleEnum" =>
    LET T == heap[_tuple.r].elems
    IN /\ _tuple = arg.tuple
       /\ heap[arg.tuple.r].frozen
       /\ T = [i \in 1..Len(arg.labels) |-> Str(arg.labels[i])]
       /\ (call.op \in {"assignElement", "pop"} /\ call.target = arg.tuple.r) =>
            ret = TypeError
       /\ call.op = "get" =>
            ret = IF call.indices[1] \in 0..(Len(T) - 1) THEN T[call.indices[1] + 1]
                  ELSE Undefined
       /\ call.op = "getMany" =>
            /\ Len(Elems(ret)) = Len(call.indices)
            /\ \A j \in 1..Len(call.indices) :
                 Elems(ret)[j] = IF call.indices[j] \in 0..(Len(T) - 1)
                                 THEN T[call.indices[j] + 1] ELSE Undefined
       /\ call.op = "length" => ret = Number(Len(T))

\* The caller's attempt to overwrite the first element of the sequence of two
\* labels it had handed to ButterTupleEnum threw.
C30_Witness ==
  /\ pc = "tupleEnum"
  /\ Len(arg.labels) = 2
  /\ call.op = "assignElement"
  /\ call.target = arg.tuple.r
  /\ call.indices = <<0>>
  /\ ret = TypeError

====
